---- MODULE Spec2Model ----
(***************************************************************************)
(* The Prometheus interceptor for unary gRPC calls (ServerMetrics,         *)
(* metricLabels, serverReporter) as a state machine.                       *)
(*                                                                         *)
(* A Go string is a sequence of one-character strings, so that             *)
(* strings.TrimPrefix, strings.Index and slicing are computed, not assumed.*)
(* Label NAMES are TLA+ strings (they are only map keys); label VALUES are *)
(* Go strings.                                                             *)
(***************************************************************************)
EXTENDS Integers, Sequences, FiniteSets, TLC

(* ------------------------------ bounds -------------------------------- *)

\* number of calls the framework may dispatch concurrently (Spec)
NCalls == 2
\* longest fully-qualified method identifier enumerated in SpecSplit
MaxLen == 5
\* the clock of SpecCall stops ticking here
MaxTime == 2

Calls == 1..NCalls

(* --------------------------- string literals -------------------------- *)

Slash == "/"
Unknown == <<"u", "n", "k", "n", "o", "w", "n">>
Default == <<"d", "e", "f", "a", "u", "l", "t">>
Jordi == <<"j", "o", "r", "d", "i">>
V05 == <<"v", "0", ".", "5">>
GreetSayHello ==
  <<"/", "g", "r", "e", "e", "t", ".", "G", "r", "e", "e", "t", "e", "r",
    "/", "S", "a", "y", "H", "e", "l", "l", "o">>
GreetGreeter ==
  <<"g", "r", "e", "e", "t", ".", "G", "r", "e", "e", "t", "e", "r">>
SayHello == <<"S", "a", "y", "H", "e", "l", "l", "o">>

(* ------------------------- strings.* helpers -------------------------- *)

\* strings.TrimPrefix(s, "/")
TrimPrefix(s) ==
  IF Len(s) >= 1 /\ s[1] = Slash THEN SubSeq(s, 2, Len(s)) ELSE s

\* strings.Index(s, "/"), 0-based, -1 when there is none
Index(s) ==
  IF \E i \in 1..Len(s) : s[i] = Slash
  THEN (CHOOSE i \in 1..Len(s) :
          s[i] = Slash /\ \A j \in 1..(i - 1) : s[j] # Slash) - 1
  ELSE -1

\* splitMethodName with a second leading-slash strip missing: the separator
\* is looked for in the untrimmed identifier
SplitNoTrim(fullMethodName) ==
  LET i == Index(fullMethodName)
  IN  IF i >= 0
      THEN <<SubSeq(fullMethodName, 1, i),
             SubSeq(fullMethodName, i + 2, Len(fullMethodName))>>
      ELSE <<Unknown, Unknown>>

\* splitMethodName(fullMethodName) -> (service, method)
splitMethodName(fullMethodName) ==
  LET s == TrimPrefix(fullMethodName)
      i == Index(s)
  IN  IF i >= 0
      THEN <<SubSeq(s, 1, i), SubSeq(s, i + 2, Len(s))>>
      ELSE <<Unknown, Unknown>>

(* --------------------------- status codes ----------------------------- *)

\* codes.Code.String() for the codes the model's handlers produce
CodeString(code) ==
  CASE code = "OK" -> <<"O", "K">>
    [] code = "NotFound" -> <<"N", "o", "t", "F", "o", "u", "n", "d">>
    [] code = "Canceled" -> <<"C", "a", "n", "c", "e", "l", "e", "d">>
    [] OTHER -> <<"U", "n", "k", "n", "o", "w", "n">>

\* the error values a handler returns: nil, a gRPC status error carrying a
\* code, or an error that carries no gRPC status
NilErr == [kind |-> "nil", code |-> "OK"]
StatusErr(code) == [kind |-> "status", code |-> code]
PlainErr == [kind |-> "plain", code |-> "none"]

\* st, _ := grpcstatus.FromError(err); st.Code()
FromErrorCode(err) ==
  CASE err.kind = "nil" -> "OK"
    [] err.kind = "status" -> err.code
    [] OTHER -> "Unknown"

(* ------------------------------ inputs -------------------------------- *)

\* CustomLabelExtractor.LabelNames() and DefaultLabelExtractor.LabelNames()
CustomLabelNames == <<"userName">>
DefaultLabelNames == <<>>

\* the mapping CustomLabelExtractor.Labels returns: userName is declared,
\* appVersion is not
CustomLabels == ("userName" :> Jordi) @@ ("appVersion" :> V05)
\* the mapping DefaultLabelExtractor.Labels returns (also a nil map: ranging
\* over it copies nothing)
NoLabels == <<>>
\* a LabelExtractor whose mapping uses the base label names
BaseLabels == ("grpc_service" :> V05) @@ ("grpc_status" :> Jordi)
\* a LabelExtractor that declares two names and resolves only the second
RegionLabels == ("region" :> V05)
\* the extractors of SpecCall: their declared names and their mappings
CallLabelNames == {DefaultLabelNames, CustomLabelNames, <<"userName", "region">>}
CallLabels == {NoLabels, CustomLabels, BaseLabels, RegionLabels}

\* fully-qualified method identifiers the framework passes in info.FullMethod
Alphabet == {Slash, "a", "b"}
RECURSIVE StringsOfLen(_)
StringsOfLen(n) ==
  IF n = 0 THEN {<<>>}
  ELSE {Append(s, ch) : s \in StringsOfLen(n - 1), ch \in Alphabet}
AllFullMethods == UNION {StringsOfLen(n) : n \in 0..MaxLen}
CallFullMethods == {GreetSayHello, <<"a", "b">>, <<"/", "a">>, <<"/", "a", "/", "b">>}

Ctxs == {"ctx1", "ctx2"}
Reqs == {"req1", "req2"}

\* what a handler may return: (resp, err)
Outcomes == {<<"resp1", NilErr>>, <<"nil", StatusErr("Canceled")>>}
CallOutcomes ==
  Outcomes \cup {<<"nil", StatusErr("NotFound")>>, <<"nil", PlainErr>>,
                 <<"resp1", StatusErr("NotFound")>>}

(* ------------------------------- state -------------------------------- *)

VARIABLES
  extractor,      \* what the LabelExtractor's LabelNames() returns
  labels,         \* ServerMetrics.labels: the declared label names, in order
  second,         \* labels of a registry built again from the same extractor
  counter,        \* serverHandledCounter: series tuple -> value
  histogram,      \* serverHandledHistogram: series tuple -> [count, sum]
  pc,             \* where each call is inside the interceptor closure
  args,           \* ctx, req, info.FullMethod the framework passed
  extracted,      \* what labelExtractor.Labels(ctx) returned to the call
  metricLabels,   \* the map metricLabels built for the call
  monitor,        \* the call's serverReporter
  handlerCalls,   \* the (ctx, req) pairs the handler was invoked with
  result,         \* resp, err as the handler returned them
  orderedLabels,  \* the tuple Handled built
  incs,           \* Inc() operations the call has committed
  obss,           \* Observe() operations the call has committed
  returned,       \* what the closure returned to the framework
  now,            \* the clock time.Now() reads
  stamps,         \* the clock when the call entered the closure, when its
                  \* labels were resolved and when its handler returned
  scrape          \* a Collect in progress and what it has sent so far

vars ==
  <<extractor, labels, second, stamps, counter, histogram, pc, args, extracted, metricLabels, monitor,
    handlerCalls, result, orderedLabels, incs, obss, returned, now, scrape>>

callVars ==
  <<pc, args, extracted, metricLabels, monitor, handlerCalls, result,
    orderedLabels, incs, obss, returned>>

Range(f) == {f[x] : x \in DOMAIN f}

\* Go's m[k] on a map[string]string: the zero value "" for a missing key
MapGet(m, k) == IF k \in DOMAIN m THEN m[k] ELSE <<>>

(* --------------------------- construction ----------------------------- *)

\* a label set with the extractor's names in front of the base names
LabelsCustomFirst(labelNames) ==
  labelNames \o <<"grpc_service", "grpc_method", "grpc_status">>

\* NewServerMetrics: labels := append(base names, LabelNames()...)
NewServerMetricsLabels(labelNames) ==
  <<"grpc_service", "grpc_method", "grpc_status">> \o labelNames

\* NewServerMetrics called once more with the same LabelExtractor: a second
\* registry with a label slice of its own
NewServerMetricsAgain ==
  /\ second = <<>>
  /\ second' = NewServerMetricsLabels(extractor)
  /\ UNCHANGED <<extractor, labels, stamps, counter, histogram, pc, args, extracted,
                 metricLabels, monitor, handlerCalls, result, orderedLabels,
                 incs, obss, returned, now, scrape>>

\* a registry that creates the series of the known method with value zero when
\* it is built (the InitializeMetrics the demo leaves commented out)
InitZeroed(labelNames) ==
  LET names == NewServerMetricsLabels(labelNames)
      zero == [i \in 1..Len(names) |->
                 IF i = 1 THEN GreetGreeter ELSE IF i = 2 THEN SayHello
                 ELSE IF i = 3 THEN <<"O", "K">> ELSE Default]
  IN  /\ extractor = labelNames
      /\ labels = names
      /\ second = <<>>
      /\ counter = (zero :> 0)
      /\ histogram = (zero :> [count |-> 0, sum |-> 0])
      /\ pc = [c \in Calls |-> "idle"]
      /\ args = [c \in Calls |-> [ctx |-> "none", req |-> "none", fullMethod |-> <<>>]]
      /\ extracted = [c \in Calls |-> <<>>]
      /\ metricLabels = [c \in Calls |-> <<>>]
      /\ monitor = [c \in Calls |-> [labels |-> <<>>, startTime |-> 0]]
      /\ handlerCalls = [c \in Calls |-> <<>>]
      /\ result = [c \in Calls |-> <<"none", NilErr>>]
      /\ orderedLabels = [c \in Calls |-> <<>>]
      /\ incs = [c \in Calls |-> 0]
      /\ obss = [c \in Calls |-> 0]
      /\ returned = [c \in Calls |-> <<"none", NilErr>>]
      /\ now = 0
      /\ stamps = [c \in Calls |-> [entry |-> 0, resolved |-> 0, done |-> 0]]
  /\ stamps = [c \in Calls |-> [entry |-> 0, resolved |-> 0, done |-> 0]]
      /\ scrape = [pc |-> "idle", pending |-> {}, counters |-> <<>>, histograms |-> <<>>]

\* the state NewServerMetrics leaves: the label set, two empty vectors, no
\* call in flight
InitWith(labelNames) ==
  /\ extractor = labelNames
  /\ labels = NewServerMetricsLabels(labelNames)
  /\ second = <<>>
  /\ counter = <<>>
  /\ histogram = <<>>
  /\ pc = [c \in Calls |-> "idle"]
  /\ args = [c \in Calls |-> [ctx |-> "none", req |-> "none", fullMethod |-> <<>>]]
  /\ extracted = [c \in Calls |-> <<>>]
  /\ metricLabels = [c \in Calls |-> <<>>]
  /\ monitor = [c \in Calls |-> [labels |-> <<>>, startTime |-> 0]]
  /\ handlerCalls = [c \in Calls |-> <<>>]
  /\ result = [c \in Calls |-> <<"none", NilErr>>]
  /\ orderedLabels = [c \in Calls |-> <<>>]
  /\ incs = [c \in Calls |-> 0]
  /\ obss = [c \in Calls |-> 0]
  /\ returned = [c \in Calls |-> <<"none", NilErr>>]
  /\ now = 0
  /\ stamps = [c \in Calls |-> [entry |-> 0, resolved |-> 0, done |-> 0]]
  /\ scrape = [pc |-> "idle", pending |-> {}, counters |-> <<>>, histograms |-> <<>>]

\* the demo's wiring: grpcMetrics = NewServerMetrics(&customLabelExtractor)
Init == InitWith(CustomLabelNames)

(* ------------------------- the interceptor ---------------------------- *)

\* the framework invokes the closure UnaryServerInterceptor returned
Invoke(c, ctx, req, fullMethod) ==
  /\ pc[c] = "idle"
  /\ args' = [args EXCEPT ![c] = [ctx |-> ctx, req |-> req, fullMethod |-> fullMethod]]
  /\ pc' = [pc EXCEPT ![c] = "ENTRY"]
  /\ stamps' = [stamps EXCEPT ![c].entry = now]
  /\ UNCHANGED <<labels, extractor, second, counter, histogram, extracted, metricLabels, monitor,
                 handlerCalls, result, orderedLabels, incs, obss, returned,
                 now, scrape>>

\* ServerMetrics.metricLabels: basic labels, then the extractor's labels
\* written over them, then "default" for every declared name still missing
MetricLabelsOf(names, fullMethod, ext) ==
  LET sm == splitMethodName(fullMethod)
      basic == ("grpc_service" :> sm[1]) @@ ("grpc_method" :> sm[2])
      custom == ext @@ basic
  IN  [n \in DOMAIN custom \cup Range(names) |->
         IF n \in DOMAIN custom THEN custom[n] ELSE Default]

\* metricLabels := m.metricLabels(labelExtractor, ctx, info), the extractor
\* returning ext for this call
MetricLabels(c, ext) ==
  /\ pc[c] = "ENTRY"
  /\ extracted' = [extracted EXCEPT ![c] = ext]
  /\ metricLabels' =
       [metricLabels EXCEPT ![c] = MetricLabelsOf(labels, args[c].fullMethod, ext)]
  /\ pc' = [pc EXCEPT ![c] = "LABELS_RESOLVED"]
  /\ stamps' = [stamps EXCEPT ![c].resolved = now]
  /\ UNCHANGED <<labels, extractor, second, counter, histogram, args, monitor, handlerCalls,
                 result, orderedLabels, incs, obss, returned, now, scrape>>

\* a closure that runs the handler on a context of its own
HandlerArgsDetached(a) == <<"background", a.req>>

\* the arguments the closure hands to the handler
HandlerArgsOf(a) == <<a.ctx, a.req>>

\* a reporter whose start time is the time the call entered the closure
StartHandlerEntryTime(c) ==
  /\ pc[c] = "LABELS_RESOLVED"
  /\ monitor' =
       [monitor EXCEPT ![c] = [labels |-> metricLabels[c], startTime |-> stamps[c].entry]]
  /\ handlerCalls' = [handlerCalls EXCEPT ![c] = Append(@, HandlerArgsOf(args[c]))]
  /\ pc' = [pc EXCEPT ![c] = "HANDLER_RUNNING"]
  /\ UNCHANGED <<labels, extractor, second, stamps, counter, histogram, args, extracted,
                 metricLabels, result, orderedLabels, incs, obss, returned, now, scrape>>

\* a closure that may create the reporter and enter the handler before the
\* labels are resolved
StartHandlerEarly(c) ==
  /\ pc[c] \in {"ENTRY", "LABELS_RESOLVED"}
  /\ monitor' = [monitor EXCEPT ![c] = [labels |-> metricLabels[c], startTime |-> now]]
  /\ handlerCalls' = [handlerCalls EXCEPT ![c] = Append(@, HandlerArgsOf(args[c]))]
  /\ pc' = [pc EXCEPT ![c] = "HANDLER_RUNNING"]
  /\ UNCHANGED <<labels, extractor, second, stamps, counter, histogram, args, extracted, metricLabels,
                 result, orderedLabels, incs, obss, returned, now, scrape>>

\* monitor := newServerReporter(m, metricLabels); then handler(ctx, req) is
\* entered
StartHandler(c) ==
  /\ pc[c] = "LABELS_RESOLVED"
  /\ monitor' = [monitor EXCEPT ![c] = [labels |-> metricLabels[c], startTime |-> now]]
  /\ handlerCalls' = [handlerCalls EXCEPT ![c] = Append(@, HandlerArgsOf(args[c]))]
  /\ pc' = [pc EXCEPT ![c] = "HANDLER_RUNNING"]
  /\ UNCHANGED <<labels, extractor, second, stamps, counter, histogram, args, extracted, metricLabels,
                 result, orderedLabels, incs, obss, returned, now, scrape>>

\* resp, err := handler(ctx, req) returns
HandlerReturn(c, resp, err) ==
  /\ pc[c] = "HANDLER_RUNNING"
  /\ result' = [result EXCEPT ![c] = <<resp, err>>]
  /\ pc' = [pc EXCEPT ![c] = "HANDLER_DONE"]
  /\ stamps' = [stamps EXCEPT ![c].done = now]
  /\ UNCHANGED <<labels, extractor, second, counter, histogram, args, extracted, metricLabels,
                 monitor, handlerCalls, orderedLabels, incs, obss, returned,
                 now, scrape>>

\* a status written only where label resolution left the placeholder
StatusLabelIfUnset(lbls, err) ==
  IF MapGet(lbls, "grpc_status") = Default
  THEN ("grpc_status" :> CodeString(FromErrorCode(err))) @@ lbls
  ELSE lbls

\* the status label left as metricLabels resolved it
StatusLabelKept(lbls, err) == lbls

\* monitor.labels["grpc_status"] = st.Code().String()
StatusLabelOf(lbls, err) ==
  ("grpc_status" :> CodeString(FromErrorCode(err))) @@ lbls

\* a status written into a map the calls share: metricLabels handing out the
\* extractor's mapping object itself, so that every call the extractor gave
\* the same mapping to sees the write
SetStatusAliased(c) ==
  /\ pc[c] = "HANDLER_DONE"
  /\ monitor' =
       [d \in Calls |->
          IF d = c \/ (pc[d] \in {"HANDLER_RUNNING", "HANDLER_DONE"}
                      /\ extracted[d] = extracted[c])
          THEN [monitor[d] EXCEPT !.labels = StatusLabelOf(@, result[c][2])]
          ELSE monitor[d]]
  /\ metricLabels' =
       [d \in Calls |->
          IF d = c \/ (pc[d] \in {"LABELS_RESOLVED", "HANDLER_RUNNING", "HANDLER_DONE"}
                      /\ extracted[d] = extracted[c])
          THEN StatusLabelOf(metricLabels[d], result[c][2])
          ELSE metricLabels[d]]
  /\ pc' = [pc EXCEPT ![c] = "STATUS_SET"]
  /\ UNCHANGED <<labels, extractor, second, stamps, counter, histogram, args, extracted, handlerCalls,
                 result, orderedLabels, incs, obss, returned, now, scrape>>

\* st, _ := grpcstatus.FromError(err); monitor.labels["grpc_status"] = ...
\* monitor.labels and metricLabels are the same map object
SetStatus(c) ==
  /\ pc[c] = "HANDLER_DONE"
  /\ monitor' = [monitor EXCEPT ![c].labels = StatusLabelOf(@, result[c][2])]
  /\ metricLabels' = [metricLabels EXCEPT ![c] = StatusLabelOf(@, result[c][2])]
  /\ pc' = [pc EXCEPT ![c] = "STATUS_SET"]
  /\ UNCHANGED <<labels, extractor, second, stamps, counter, histogram, args, extracted, handlerCalls,
                 result, orderedLabels, incs, obss, returned, now, scrape>>

\* the tuple built by ranging over the reporter's map instead of the declared
\* names (here in the order grpc_method, grpc_service, then the rest)
OrderedLabelsByMap(names, lbls) ==
  LET rest == DOMAIN lbls \ {"grpc_method", "grpc_service"}
      RECURSIVE Rest(_)
      Rest(S) == IF S = {} THEN <<>>
                 ELSE LET n == CHOOSE x \in S : TRUE
                      IN  <<lbls[n]>> \o Rest(S \ {n})
  IN  <<MapGet(lbls, "grpc_method"), MapGet(lbls, "grpc_service")>> \o Rest(rest)

\* Handled: for _, labelName := range r.metrics.labels { append(r.labels[labelName]) }
OrderedLabelsOf(names, lbls) ==
  [i \in 1..Len(names) |-> MapGet(lbls, names[i])]

\* CounterVec/HistogramVec.WithLabelValues(t...): the series of t, created
\* with the zero value when t is accessed for the first time
WithLabelValues(vec, t, zero) ==
  IF t \in DOMAIN vec THEN vec ELSE vec @@ (t :> zero)

\* Handled, first half of line 154: the tuple is built and the counter's
\* series looked up
HandledCounterWith(c) ==
  /\ pc[c] = "STATUS_SET"
  /\ orderedLabels' = [orderedLabels EXCEPT ![c] = OrderedLabelsOf(labels, monitor[c].labels)]
  /\ counter' = WithLabelValues(counter, orderedLabels'[c], 0)
  /\ pc' = [pc EXCEPT ![c] = "COUNTER_GOT"]
  /\ UNCHANGED <<labels, extractor, second, stamps, histogram, args, extracted, metricLabels, monitor,
                 handlerCalls, result, incs, obss, returned, now, scrape>>

\* an increment that is a plain read, add, write of a value read when the
\* series was looked up: concurrent increments overwrite each other
IncLost(vec, t) == [vec EXCEPT ![t] = 1]

\* Counter.Inc(): one atomic add
Inc(vec, t) == [vec EXCEPT ![t] = @ + 1]

\* an increment that waits for a lock a scrape of the counter holds
HandledCounterIncLocked(c) ==
  /\ pc[c] = "COUNTER_GOT"
  /\ scrape.pc # "counter"
  /\ counter' = Inc(counter, orderedLabels[c])
  /\ incs' = [incs EXCEPT ![c] = @ + 1]
  /\ pc' = [pc EXCEPT ![c] = "COUNTED"]
  /\ UNCHANGED <<labels, extractor, second, stamps, histogram, args, extracted, metricLabels, monitor,
                 handlerCalls, result, orderedLabels, obss, returned, now,
                 scrape>>

\* Handled, second half of line 154: .Inc()
HandledCounterInc(c) ==
  /\ pc[c] = "COUNTER_GOT"
  /\ counter' = Inc(counter, orderedLabels[c])
  /\ incs' = [incs EXCEPT ![c] = @ + 1]
  /\ pc' = [pc EXCEPT ![c] = "COUNTED"]
  /\ UNCHANGED <<labels, extractor, second, stamps, histogram, args, extracted, metricLabels, monitor,
                 handlerCalls, result, orderedLabels, obss, returned, now,
                 scrape>>

\* Handled, first half of line 155: the histogram's series is looked up
HandledHistogramWith(c) ==
  /\ pc[c] = "COUNTED"
  /\ histogram' = WithLabelValues(histogram, orderedLabels[c], [count |-> 0, sum |-> 0])
  /\ pc' = [pc EXCEPT ![c] = "HISTOGRAM_GOT"]
  /\ UNCHANGED <<labels, extractor, second, stamps, counter, args, extracted, metricLabels, monitor,
                 handlerCalls, result, orderedLabels, incs, obss, returned,
                 now, scrape>>

\* an observation that is counted twice
ObserveTwice(vec, t, v) ==
  [vec EXCEPT ![t] = [count |-> @.count + 2, sum |-> @.sum + v]]

\* Histogram.Observe(v): count and sum of the series grow together
Observe(vec, t, v) ==
  [vec EXCEPT ![t] = [count |-> @.count + 1, sum |-> @.sum + v]]

\* Handled, second half of line 155: .Observe(time.Since(r.startTime).Seconds())
HandledHistogramObserve(c) ==
  /\ pc[c] = "HISTOGRAM_GOT"
  /\ histogram' = Observe(histogram, orderedLabels[c], now - monitor[c].startTime)
  /\ obss' = [obss EXCEPT ![c] = @ + 1]
  /\ pc' = [pc EXCEPT ![c] = "OBSERVED"]
  /\ UNCHANGED <<labels, extractor, second, stamps, counter, args, extracted, metricLabels, monitor,
                 handlerCalls, result, orderedLabels, incs, returned, now,
                 scrape>>

\* a closure that reports every handler failure as an internal error
ReturnMasked(res) ==
  IF res[2].kind = "nil" THEN res ELSE <<"nil", StatusErr("Internal")>>

\* return resp, err
ReturnOf(res) == res

\* a closure that returns a handler failure at once, before Handled
ReturnOnError(c) ==
  /\ \/ pc[c] = "OBSERVED"
     \/ pc[c] = "HANDLER_DONE" /\ result[c][2].kind # "nil"
  /\ returned' = [returned EXCEPT ![c] = ReturnOf(result[c])]
  /\ pc' = [pc EXCEPT ![c] = "RETURNED"]
  /\ UNCHANGED <<labels, extractor, second, stamps, counter, histogram, args, extracted, metricLabels,
                 monitor, handlerCalls, result, orderedLabels, incs, obss,
                 now, scrape>>

\* the closure returns to the framework
Return(c) ==
  /\ pc[c] = "OBSERVED"
  /\ returned' = [returned EXCEPT ![c] = ReturnOf(result[c])]
  /\ pc' = [pc EXCEPT ![c] = "RETURNED"]
  /\ UNCHANGED <<labels, extractor, second, stamps, counter, histogram, args, extracted, metricLabels,
                 monitor, handlerCalls, result, orderedLabels, incs, obss,
                 now, scrape>>

\* time passes
Tick ==
  /\ now < MaxTime
  /\ now' = now + 1
  /\ UNCHANGED <<labels, extractor, second, stamps, counter, histogram, scrape>>
  /\ UNCHANGED callVars

(* ------------------------------ Collect ------------------------------- *)

\* Collect, line 59: serverHandledCounter.Collect(ch) starts on the series
\* the vector holds now
CollectCounterBegin ==
  /\ scrape.pc = "idle"
  /\ scrape' = [pc |-> "counter", pending |-> DOMAIN counter,
                counters |-> <<>>, histograms |-> <<>>]
  /\ UNCHANGED <<labels, extractor, second, stamps, counter, histogram, now>>
  /\ UNCHANGED callVars

\* a read that is not atomic with a concurrent Inc and sends a value the
\* series never held
CollectCounterReadTorn(t) ==
  /\ scrape.pc = "counter"
  /\ t \in scrape.pending
  /\ scrape' = [scrape EXCEPT !.pending = @ \ {t},
                              !.counters = @ @@ (t :> counter[t] + 1)]
  /\ UNCHANGED <<labels, extractor, second, stamps, counter, histogram, now>>
  /\ UNCHANGED callVars

\* one counter series is read and sent on ch
CollectCounterRead(t) ==
  /\ scrape.pc = "counter"
  /\ t \in scrape.pending
  /\ scrape' = [scrape EXCEPT !.pending = @ \ {t},
                              !.counters = @ @@ (t :> counter[t])]
  /\ UNCHANGED <<labels, extractor, second, stamps, counter, histogram, now>>
  /\ UNCHANGED callVars

\* Collect, line 60: serverHandledHistogram.Collect(ch) starts
CollectHistogramBegin ==
  /\ scrape.pc = "counter"
  /\ scrape.pending = {}
  /\ scrape' = [scrape EXCEPT !.pc = "histogram", !.pending = DOMAIN histogram]
  /\ UNCHANGED <<labels, extractor, second, stamps, counter, histogram, now>>
  /\ UNCHANGED callVars

\* one histogram series is read and sent on ch
CollectHistogramRead(t) ==
  /\ scrape.pc = "histogram"
  /\ t \in scrape.pending
  /\ scrape' = [scrape EXCEPT !.pending = @ \ {t},
                              !.histograms = @ @@ (t :> histogram[t])]
  /\ UNCHANGED <<labels, extractor, second, stamps, counter, histogram, now>>
  /\ UNCHANGED callVars

\* a Collect that resets both vectors once it has reported them
CollectEndReset ==
  /\ scrape.pc = "histogram"
  /\ scrape.pending = {}
  /\ scrape' = [scrape EXCEPT !.pc = "done"]
  /\ counter' = <<>>
  /\ histogram' = <<>>
  /\ UNCHANGED <<labels, extractor, second, stamps, now>>
  /\ UNCHANGED callVars

\* Collect returns
CollectEnd ==
  /\ scrape.pc = "histogram"
  /\ scrape.pending = {}
  /\ scrape' = [scrape EXCEPT !.pc = "done"]
  /\ UNCHANGED <<labels, extractor, second, stamps, counter, histogram, now>>
  /\ UNCHANGED callVars

(* --------------------------- specifications --------------------------- *)

\* Spec: NCalls concurrent calls of SayHello through the demo's wiring
\* (CustomLabelExtractor), each succeeding or cancelled, and a scrape.  The
\* clock stands still here; it ticks in SpecCall.
Next ==
  \/ \E c \in Calls : Invoke(c, "ctx1", "req1", GreetSayHello)
  \/ \E c \in Calls : MetricLabels(c, CustomLabels)
  \/ \E c \in Calls : StartHandler(c)
  \/ \E c \in Calls, o \in Outcomes : HandlerReturn(c, o[1], o[2])
  \/ \E c \in Calls : SetStatus(c)
  \/ \E c \in Calls : HandledCounterWith(c)
  \/ \E c \in Calls : HandledCounterInc(c)
  \/ \E c \in Calls : HandledHistogramWith(c)
  \/ \E c \in Calls : HandledHistogramObserve(c)
  \/ \E c \in Calls : Return(c)
  \/ CollectCounterBegin
  \/ \E t \in DOMAIN counter : CollectCounterRead(t)
  \/ CollectHistogramBegin
  \/ \E t \in DOMAIN histogram : CollectHistogramRead(t)
  \/ CollectEnd

Spec == Init /\ [][Next]_vars

\* the steps of call c that are the closure's own: everything but the
\* framework's invocation and the handler's return
InterceptorStep(c) ==
  \/ MetricLabels(c, CustomLabels)
  \/ StartHandler(c)
  \/ SetStatus(c)
  \/ HandledCounterWith(c)
  \/ HandledCounterInc(c)
  \/ HandledHistogramWith(c)
  \/ HandledHistogramObserve(c)
  \/ Return(c)

\* some call takes a step of the closure
SomeInterceptorStep == \E c \in Calls : InterceptorStep(c)

\* SpecFair: NCalls concurrent calls whose handler, if it returns, was
\* cancelled, and a scrape.  The scheduler does not stop running the calls'
\* goroutines: while some call has a step of the closure to take, one of
\* them is taken (weaker than fairness for each goroutine, which the Go
\* scheduler gives).  No fairness for the framework, the handler or the
\* scrape: a call may never arrive, a handler may never return, a scrape may
\* stop halfway.
NextFair ==
  \/ \E c \in Calls : Invoke(c, "ctx1", "req1", GreetSayHello)
  \/ SomeInterceptorStep
  \/ \E c \in Calls : HandlerReturn(c, "nil", StatusErr("Canceled"))
  \/ CollectCounterBegin
  \/ \E t \in DOMAIN counter : CollectCounterRead(t)
  \/ CollectHistogramBegin
  \/ \E t \in DOMAIN histogram : CollectHistogramRead(t)
  \/ CollectEnd

SpecFair == Init /\ [][NextFair]_vars /\ WF_vars(SomeInterceptorStep)

\* SpecCall: one call, with every kind of extractor, method identifier and
\* handler outcome, on a ticking clock
InitCall == \E names \in CallLabelNames : InitWith(names)

NextCall ==
  \/ \E ctx \in Ctxs, req \in Reqs, fm \in CallFullMethods : Invoke(1, ctx, req, fm)
  \/ \E ext \in CallLabels : MetricLabels(1, ext)
  \/ StartHandler(1)
  \/ \E o \in CallOutcomes : HandlerReturn(1, o[1], o[2])
  \/ SetStatus(1)
  \/ HandledCounterWith(1)
  \/ HandledCounterInc(1)
  \/ HandledHistogramWith(1)
  \/ HandledHistogramObserve(1)
  \/ Return(1)
  \/ Tick
  \/ NewServerMetricsAgain

SpecCall == InitCall /\ [][NextCall]_vars

\* SpecSplit: one call for every method identifier up to MaxLen characters
NextSplit ==
  \/ \E fm \in AllFullMethods : Invoke(1, "ctx1", "req1", fm)
  \/ MetricLabels(1, CustomLabels)
  \/ StartHandler(1)
  \/ HandlerReturn(1, "resp1", NilErr)
  \/ SetStatus(1)
  \/ HandledCounterWith(1)
  \/ HandledCounterInc(1)
  \/ HandledHistogramWith(1)
  \/ HandledHistogramObserve(1)
  \/ Return(1)

SpecSplit == Init /\ [][NextSplit]_vars

(* ------------------- the first version (server.go) -------------------- *)

Test == <<"T", "e", "s", "t">>
Test111 == <<"T", "e", "s", "t", "1", "1", "1">>

\* requests: the client's two HelloRequests, and a message of another type
\* that has a Name of its own
HelloRequest(name) == [type |-> "HelloRequest", name |-> name]
V1Reqs == {HelloRequest(Test), HelloRequest(Test111), [type |-> "Other", name |-> Test]}

\* var SeverMetricLabels
SeverMetricLabels == <<"grpc_service", "grpc_method", "param_name">>

\* a label taken from the Name of whatever message arrives
CustomLabelByName(v) == v.name

\* CustomLabel: case *pb.HelloRequest: return t.Name; default: "unknown"
CustomLabel(v) == IF v.type = "HelloRequest" THEN v.name ELSE Unknown

\* NewServerMetrics of the first version: both vectors over SeverMetricLabels
InitV1 ==
  /\ extractor = <<>>
  /\ labels = SeverMetricLabels
  /\ second = <<>>
  /\ counter = <<>>
  /\ histogram = <<>>
  /\ pc = [c \in Calls |-> "idle"]
  /\ args = [c \in Calls |->
               [ctx |-> "none", req |-> [type |-> "none", name |-> <<>>], fullMethod |-> <<>>]]
  /\ extracted = [c \in Calls |-> <<>>]
  /\ metricLabels = [c \in Calls |-> <<>>]
  /\ monitor = [c \in Calls |->
                  [serviceName |-> <<>>, methodName |-> <<>>, customLabel |-> <<>>,
                   startTime |-> 0]]
  /\ handlerCalls = [c \in Calls |-> <<>>]
  /\ result = [c \in Calls |-> <<"none", NilErr>>]
  /\ orderedLabels = [c \in Calls |-> <<>>]
  /\ incs = [c \in Calls |-> 0]
  /\ obss = [c \in Calls |-> 0]
  /\ returned = [c \in Calls |-> <<"none", NilErr>>]
  /\ now = 0
  /\ stamps = [c \in Calls |-> [entry |-> 0, resolved |-> 0, done |-> 0]]
  /\ scrape = [pc |-> "idle", pending |-> {}, counters |-> <<>>, histograms |-> <<>>]

\* the framework invokes the closure
V1Invoke(c, ctx, req, fullMethod) ==
  /\ pc[c] = "idle"
  /\ args' = [args EXCEPT ![c] = [ctx |-> ctx, req |-> req, fullMethod |-> fullMethod]]
  /\ pc' = [pc EXCEPT ![c] = "ENTRY"]
  /\ stamps' = [stamps EXCEPT ![c].entry = now]
  /\ UNCHANGED <<extractor, labels, second, counter, histogram, extracted,
                 metricLabels, monitor, handlerCalls, result, orderedLabels,
                 incs, obss, returned, now, scrape>>
\* service, method := splitMethodName(info.FullMethod);
\* monitor := newServerReporter(m, service, method, CustomLabel(req));
\* then handler(ctx, req) is entered
V1StartHandler(c) ==
  /\ pc[c] = "ENTRY"
  /\ monitor' =
       [monitor EXCEPT ![c] =
          [serviceName |-> splitMethodName(args[c].fullMethod)[1],
           methodName |-> splitMethodName(args[c].fullMethod)[2],
           customLabel |-> CustomLabel(args[c].req),
           startTime |-> now]]
  /\ handlerCalls' = [handlerCalls EXCEPT ![c] = Append(@, <<args[c].ctx, args[c].req>>)]
  /\ pc' = [pc EXCEPT ![c] = "HANDLER_RUNNING"]
  /\ stamps' = [stamps EXCEPT ![c].resolved = now]
  /\ UNCHANGED <<extractor, labels, second, counter, histogram, args,
                 extracted, metricLabels, result, orderedLabels, incs, obss,
                 returned, now, scrape>>
\* resp, err := handler(ctx, req) returns
V1HandlerReturn(c, resp, err) ==
  /\ pc[c] = "HANDLER_RUNNING"
  /\ result' = [result EXCEPT ![c] = <<resp, err>>]
  /\ pc' = [pc EXCEPT ![c] = "HANDLER_DONE"]
  /\ stamps' = [stamps EXCEPT ![c].done = now]
  /\ UNCHANGED <<extractor, labels, second, counter, histogram, args,
                 extracted, metricLabels, monitor, handlerCalls,
                 orderedLabels, incs, obss, returned, now, scrape>>
\* Handled: serverHandledCounter.WithLabelValues(serviceName, methodName,
\* customLabel)
V1HandledCounterWith(c) ==
  /\ pc[c] = "HANDLER_DONE"
  /\ orderedLabels' =
       [orderedLabels EXCEPT ![c] =
          <<monitor[c].serviceName, monitor[c].methodName, monitor[c].customLabel>>]
  /\ counter' = WithLabelValues(counter, orderedLabels'[c], 0)
  /\ pc' = [pc EXCEPT ![c] = "COUNTER_GOT"]
  /\ UNCHANGED <<extractor, labels, second, stamps, histogram, args, extracted,
                 metricLabels, monitor, handlerCalls, result, incs, obss,
                 returned, now, scrape>>
\* Handled: .Inc()
V1HandledCounterInc(c) ==
  /\ pc[c] = "COUNTER_GOT"
  /\ counter' = Inc(counter, orderedLabels[c])
  /\ incs' = [incs EXCEPT ![c] = @ + 1]
  /\ pc' = [pc EXCEPT ![c] = "COUNTED"]
  /\ UNCHANGED <<extractor, labels, second, stamps, histogram, args, extracted,
                 metricLabels, monitor, handlerCalls, result, orderedLabels,
                 obss, returned, now, scrape>>
\* Handled: serverHandledHistogram.WithLabelValues(serviceName, methodName,
\* customLabel)
V1HandledHistogramWith(c) ==
  /\ pc[c] = "COUNTED"
  /\ histogram' =
       WithLabelValues(histogram,
                       <<monitor[c].serviceName, monitor[c].methodName,
                         monitor[c].customLabel>>,
                       [count |-> 0, sum |-> 0])
  /\ pc' = [pc EXCEPT ![c] = "HISTOGRAM_GOT"]
  /\ UNCHANGED <<extractor, labels, second, stamps, counter, args, extracted,
                 metricLabels, monitor, handlerCalls, result, orderedLabels,
                 incs, obss, returned, now, scrape>>
\* Handled: .Observe(time.Since(r.startTime).Seconds())
V1HandledHistogramObserve(c) ==
  /\ pc[c] = "HISTOGRAM_GOT"
  /\ histogram' =
       Observe(histogram,
               <<monitor[c].serviceName, monitor[c].methodName, monitor[c].customLabel>>,
               now - monitor[c].startTime)
  /\ obss' = [obss EXCEPT ![c] = @ + 1]
  /\ pc' = [pc EXCEPT ![c] = "OBSERVED"]
  /\ UNCHANGED <<extractor, labels, second, stamps, counter, args, extracted,
                 metricLabels, monitor, handlerCalls, result, orderedLabels,
                 incs, returned, now, scrape>>
\* return resp, err
V1Return(c) ==
  /\ pc[c] = "OBSERVED"
  /\ returned' = [returned EXCEPT ![c] = result[c]]
  /\ pc' = [pc EXCEPT ![c] = "RETURNED"]
  /\ UNCHANGED <<extractor, labels, second, stamps, counter, histogram, args,
                 extracted, metricLabels, monitor, handlerCalls, result,
                 orderedLabels, incs, obss, now, scrape>>
\* SpecV1: NCalls concurrent calls through the first version's interceptor,
\* with the client's requests and a request of another type
NextV1 ==
  \/ \E c \in Calls, req \in V1Reqs : V1Invoke(c, "ctx1", req, GreetSayHello)
  \/ \E c \in Calls : V1StartHandler(c)
  \/ \E c \in Calls, o \in Outcomes : V1HandlerReturn(c, o[1], o[2])
  \/ \E c \in Calls : V1HandledCounterWith(c)
  \/ \E c \in Calls : V1HandledCounterInc(c)
  \/ \E c \in Calls : V1HandledHistogramWith(c)
  \/ \E c \in Calls : V1HandledHistogramObserve(c)
  \/ \E c \in Calls : V1Return(c)

SpecV1 == InitV1 /\ [][NextV1]_vars

(* ------------------------ positions of a call ------------------------- *)

\* the positions of one call inside the closure, in program order
PcOrder ==
  <<"idle", "ENTRY", "LABELS_RESOLVED", "HANDLER_RUNNING", "HANDLER_DONE",
    "STATUS_SET", "COUNTER_GOT", "COUNTED", "HISTOGRAM_GOT", "OBSERVED",
    "RETURNED">>
Rank(p) == CHOOSE i \in 1..Len(PcOrder) : PcOrder[i] = p
\* call c has reached position p
Past(c, p) == Rank(pc[c]) >= Rank(p)

\* the position of a declared label name in the label set
IndexOf(name) == CHOOSE i \in 1..Len(labels) : labels[i] = name

RECURSIVE SumOver(_, _)
SumOver(f, S) ==
  IF S = {} THEN 0
  ELSE LET x == CHOOSE y \in S : TRUE IN f[x] + SumOver(f, S \ {x})

(* ------------------------------- claims ------------------------------- *)

\* C1: every call commits exactly one counter increment and exactly one
\* histogram observation, both after its handler has returned and before the
\* closure returns: none while the handler has not returned, one of each once
\* the closure has returned, never two; and the vectors hold exactly the
\* increments and observations the calls committed.
C1_ExactlyOneObservation ==
  /\ \A c \in Calls :
       /\ ~Past(c, "HANDLER_DONE") => incs[c] = 0 /\ obss[c] = 0
       /\ pc[c] = "RETURNED" => incs[c] = 1 /\ obss[c] = 1
       /\ incs[c] <= 1 /\ obss[c] <= incs[c]
  /\ SumOver(counter, DOMAIN counter) = SumOver(incs, Calls)
  /\ SumOver([t \in DOMAIN histogram |-> histogram[t].count], DOMAIN histogram)
       = SumOver(obss, Calls)

\* a cancelled call has returned to the framework with its one observation
C1_Witness ==
  \E c \in Calls :
    /\ pc[c] = "RETURNED"
    /\ result[c][2] = StatusErr("Canceled")
    /\ incs[c] = 1 /\ obss[c] = 1
    /\ counter[orderedLabels[c]] >= 1

\* C2: no lost updates: for every tuple, the counter equals the number of
\* calls with that tuple that have committed their increment and the
\* histogram count the number that have committed their observation; so once
\* N calls with the same tuple have returned both are N, and calls with
\* another tuple leave them alone.
C2_NoLostUpdates ==
  /\ \A t \in DOMAIN counter :
       counter[t] =
         Cardinality({c \in Calls : Past(c, "COUNTED") /\ orderedLabels[c] = t})
  /\ \A t \in DOMAIN histogram :
       histogram[t].count =
         Cardinality({c \in Calls : Past(c, "OBSERVED") /\ orderedLabels[c] = t})
  /\ \A c \in Calls :
       /\ Past(c, "COUNTED") => orderedLabels[c] \in DOMAIN counter
       /\ Past(c, "OBSERVED") => orderedLabels[c] \in DOMAIN histogram

\* all NCalls calls resolved to one tuple and have returned
C2_Witness ==
  /\ NCalls >= 2
  /\ \A c \in Calls : pc[c] = "RETURNED"
  /\ \E t \in DOMAIN counter : counter[t] = NCalls /\ histogram[t].count = NCalls

\* C3: the closure returns to the framework exactly the (resp, err) pair the
\* handler returned, for success and for failure alike.
C3_ResultUnchanged ==
  \A c \in Calls : pc[c] = "RETURNED" => returned[c] = result[c]

\* a failure that also carries a response came back unchanged
C3_Witness ==
  /\ pc[1] = "RETURNED"
  /\ result[1] = <<"resp1", StatusErr("NotFound")>>
  /\ returned[1] = <<"resp1", StatusErr("NotFound")>>

\* C4: the status value of the tuple a call increments is the code of its
\* handler's outcome: "OK" exactly when the handler returned no error, the
\* error's own code for a gRPC status error; a failed call increments its
\* tuple by one and leaves no increment on any tuple with status "OK".
C4_StatusFromOutcome ==
  \A c \in Calls :
    Past(c, "COUNTED") =>
      LET st == orderedLabels[c][IndexOf("grpc_status")]
          err == result[c][2]
      IN  /\ (st = <<"O", "K">>) <=> (err.kind = "nil")
          /\ err = StatusErr("NotFound")
               => st = <<"N", "o", "t", "F", "o", "u", "n", "d">>
          /\ err = StatusErr("Canceled")
               => st = <<"C", "a", "n", "c", "e", "l", "e", "d">>
          /\ orderedLabels[c] \in DOMAIN counter
          /\ err.kind # "nil" =>
               \A t \in DOMAIN counter :
                 t[IndexOf("grpc_status")] = <<"O", "K">> =>
                   \/ counter[t] = 0
                   \/ \E d \in Calls \ {c} : Past(d, "COUNTED") /\ orderedLabels[d] = t

\* a call whose extractor supplied a grpc_status of its own failed with
\* NotFound and was counted once under NotFound
C4_Witness ==
  /\ Past(1, "COUNTED")
  /\ result[1][2] = StatusErr("NotFound")
  /\ "grpc_status" \in DOMAIN extracted[1]
  /\ counter[orderedLabels[1]] = 1
  /\ orderedLabels[1][IndexOf("grpc_status")] = <<"N", "o", "t", "F", "o", "u", "n", "d">>

\* C5: the tuple Handled commits has one value per declared label name, in
\* the declared order: the i-th value is the value the call's label map holds
\* for the i-th declared name; a declared custom name the extractor did not
\* return has the value "default"; a name the extractor returned without
\* declaring it adds nothing.
C5_OneValuePerDeclaredName ==
  /\ SubSeq(labels, 1, 3) = <<"grpc_service", "grpc_method", "grpc_status">>
  /\ \A c \in Calls :
       Past(c, "COUNTER_GOT") =>
         /\ Len(orderedLabels[c]) = Len(labels)
         /\ \A i \in 1..Len(labels) :
              /\ labels[i] \in DOMAIN monitor[c].labels
              /\ orderedLabels[c][i] = monitor[c].labels[labels[i]]
              /\ i > 3 =>
                   IF labels[i] \in DOMAIN extracted[c]
                   THEN orderedLabels[c][i] = extracted[c][labels[i]]
                   ELSE orderedLabels[c][i] = Default
  /\ \A t \in DOMAIN counter \cup DOMAIN histogram : Len(t) = Len(labels)

\* userName and region are declared; the extractor returned userName and the
\* undeclared appVersion: the tuple is (.., .., .., jordi, default)
C5_Witness ==
  /\ Past(1, "COUNTED")
  /\ Len(labels) = 5
  /\ extracted[1] = CustomLabels
  /\ orderedLabels[1][4] = Jordi
  /\ orderedLabels[1][5] = Default
  /\ Len(orderedLabels[1]) = 5

\* C6: splitMethodName strips one leading "/" and splits on the first "/"
\* that remains: an identifier "/" S "/" M with no "/" in S resolves to
\* (S, M), M keeping any further "/"; "/greet.Greeter/SayHello" resolves to
\* ("greet.Greeter", "SayHello"); and these are the service and method values
\* of the call's label map when the extractor supplies neither name.
C6_SplitOnFirstSlash ==
  /\ splitMethodName(GreetSayHello) = <<GreetGreeter, SayHello>>
  /\ \A c \in Calls :
       Past(c, "ENTRY") =>
         LET fm == args[c].fullMethod
         IN  \A i \in 2..Len(fm) :
               (fm[1] = Slash /\ fm[i] = Slash /\ \A j \in 2..(i - 1) : fm[j] # Slash)
                 => /\ splitMethodName(fm) = <<SubSeq(fm, 2, i - 1), SubSeq(fm, i + 1, Len(fm))>>
                    /\ (Past(c, "LABELS_RESOLVED")
                        /\ DOMAIN extracted[c] \cap {"grpc_service", "grpc_method"} = {})
                         => /\ metricLabels[c]["grpc_service"] = SubSeq(fm, 2, i - 1)
                            /\ metricLabels[c]["grpc_method"] = SubSeq(fm, i + 1, Len(fm))

\* the call of "/a/b/" was observed under service "a" and method "b/"
C6_Witness ==
  /\ pc[1] = "RETURNED"
  /\ args[1].fullMethod = <<"/", "a", "/", "b", "/">>
  /\ orderedLabels[1][1] = <<"a">>
  /\ orderedLabels[1][2] = <<"b", "/">>

\* the identifier holds no "/" once one leading "/" is stripped
NoSeparator(fm) ==
  \A i \in 1..Len(fm) : fm[i] = Slash => i = 1

\* C7: a call whose method identifier holds no "/" (or only the leading one)
\* resolves to ("unknown", "unknown") and is observed under those values.
C7_UnknownObserved ==
  \A c \in Calls :
    (Past(c, "COUNTER_GOT") /\ NoSeparator(args[c].fullMethod)) =>
      /\ splitMethodName(args[c].fullMethod) = <<Unknown, Unknown>>
      /\ orderedLabels[c][IndexOf("grpc_service")] = Unknown
      /\ orderedLabels[c][IndexOf("grpc_method")] = Unknown

\* C8: whatever mapping the extractor returns, the call goes on: the handler
\* is invoked exactly once, with the context and request the framework
\* passed, and is never invoked again after it has failed.
C8_HandlerInvokedOnce ==
  \A c \in Calls :
    /\ ~Past(c, "HANDLER_RUNNING") => handlerCalls[c] = <<>>
    /\ Past(c, "HANDLER_RUNNING") =>
         handlerCalls[c] = <<<<args[c].ctx, args[c].req>>>>
    /\ pc[c] = "LABELS_RESOLVED" => ENABLED StartHandler(c)
    /\ pc[c] = "HANDLER_DONE" => ENABLED SetStatus(c)

\* the extractor returned the empty mapping, the handler failed, and the call
\* returned having invoked the handler once with the framework's arguments
C8_Witness ==
  /\ pc[1] = "RETURNED"
  /\ extracted[1] = NoLabels
  /\ result[1][2].kind # "nil"
  /\ handlerCalls[1] = <<<<"ctx2", "req2">>>>

\* no call is inside Handled
Quiescent ==
  \A c \in Calls : pc[c] \notin {"COUNTER_GOT", "COUNTED", "HISTOGRAM_GOT"}

\* every series of the vectors, and every series a scrape has sent, is the
\* tuple of a call whose Handled has looked it up; with no call inside Handled
\* every series holds at least one committed observation
ObservedSeriesOnly ==
  /\ \A t \in DOMAIN counter \cup DOMAIN scrape.counters :
       \E c \in Calls : Past(c, "COUNTER_GOT") /\ orderedLabels[c] = t
  /\ \A t \in DOMAIN histogram \cup DOMAIN scrape.histograms :
       \E c \in Calls : Past(c, "HISTOGRAM_GOT") /\ orderedLabels[c] = t
  /\ DOMAIN scrape.counters \subseteq DOMAIN counter
  /\ DOMAIN scrape.histograms \subseteq DOMAIN histogram
  /\ Quiescent =>
       /\ DOMAIN counter = DOMAIN histogram
       /\ \A t \in DOMAIN counter : counter[t] >= 1 /\ histogram[t].count >= 1

\* C9: Collect reports a series only for a tuple that a call has observed:
\* every series of the vectors, and every series a scrape has sent, is the
\* tuple of a call that reached Handled; nothing exists before the first call;
\* and a series that Collect sends while no call is inside Handled holds at
\* least one committed observation, so after any sequence of calls a tuple
\* never observed is never reported.
C9_OnlyObservedSeries ==
  /\ []ObservedSeriesOnly
  /\ [][ Quiescent =>
           /\ \A t \in DOMAIN scrape'.counters \ DOMAIN scrape.counters :
                scrape'.counters[t] >= 1
           /\ \A t \in DOMAIN scrape'.histograms \ DOMAIN scrape.histograms :
                scrape'.histograms[t].count >= 1
       ]_vars

\* every call succeeded and returned, then a scrape ran: it reported the one
\* tuple observed and nothing for the tuple of a cancelled call
C9_Witness ==
  /\ scrape.pc = "done"
  /\ \A c \in Calls : pc[c] = "RETURNED" /\ result[c][2].kind = "nil"
  /\ Cardinality(DOMAIN scrape.counters) = 1
  /\ Cardinality(DOMAIN scrape.histograms) = 1
  /\ \A t \in DOMAIN scrape.counters :
       scrape.counters[t] = NCalls /\ t[IndexOf("grpc_status")] = <<"O", "K">>

\* C10: a series is created, with nothing counted, by the first Handled of
\* its tuple; from then on it is never removed, its counter and its histogram
\* count never decrease and grow by one at a time; and only a step of Handled
\* changes a vector.
C10_SeriesOnlyGrow ==
  [][ /\ \A t \in DOMAIN counter :
           /\ t \in DOMAIN counter'
           /\ counter'[t] \in {counter[t], counter[t] + 1}
      /\ \A t \in DOMAIN histogram :
           /\ t \in DOMAIN histogram'
           /\ histogram'[t].count \in {histogram[t].count, histogram[t].count + 1}
      /\ \A t \in DOMAIN counter' \ DOMAIN counter :
           /\ counter'[t] = 0
           /\ \E c \in Calls :
                pc[c] = "STATUS_SET" /\ pc'[c] = "COUNTER_GOT" /\ orderedLabels'[c] = t
      /\ \A t \in DOMAIN histogram' \ DOMAIN histogram :
           /\ histogram'[t].count = 0
           /\ \E c \in Calls :
                pc[c] = "COUNTED" /\ pc'[c] = "HISTOGRAM_GOT" /\ orderedLabels[c] = t
      /\ (counter' # counter \/ histogram' # histogram) =>
           \E c \in Calls :
             /\ pc[c] \in {"STATUS_SET", "COUNTER_GOT", "COUNTED", "HISTOGRAM_GOT"}
             /\ pc'[c] # pc[c]
    ]_vars

\* a series created by one call was incremented again by another, after a
\* scrape had run
C10_Witness ==
  /\ scrape.pc = "done"
  /\ \E t \in DOMAIN counter :
       /\ counter[t] = 2
       /\ t \in DOMAIN histogram /\ histogram[t].count = 2
       /\ t \in DOMAIN scrape.counters /\ scrape.counters[t] = 1

\* a step of the scrape is possible
ScrapeCanStep ==
  \/ \E t \in scrape.pending : ENABLED CollectCounterRead(t)
  \/ \E t \in scrape.pending : ENABLED CollectHistogramRead(t)
  \/ ENABLED CollectHistogramBegin
  \/ ENABLED CollectEnd

\* what a scrape has sent never exceeds what the series holds, and a scrape
\* under way can always go on
ScrapeSound ==
  /\ \A t \in DOMAIN scrape.counters :
       t \in DOMAIN counter /\ scrape.counters[t] <= counter[t]
  /\ \A t \in DOMAIN scrape.histograms :
       t \in DOMAIN histogram /\ scrape.histograms[t].count <= histogram[t].count
  /\ scrape.pc \in {"counter", "histogram"} => ScrapeCanStep

\* C11: a Collect that runs while calls are in Handled never blocks or
\* fails, changes no series, and sends for each series the value the series
\* holds at the moment it is read, a moment between the start and the end of
\* the scrape; a value once sent is not changed. (Values of different series
\* are read at different moments.)
C11_ScrapePerSeriesAtomic ==
  /\ []ScrapeSound
  /\ [][ scrape' # scrape =>
           /\ counter' = counter /\ histogram' = histogram
           /\ scrape.pc \in {"idle", "counter", "histogram"}
           /\ \A t \in DOMAIN scrape'.counters :
                IF t \in DOMAIN scrape.counters
                THEN scrape'.counters[t] = scrape.counters[t]
                ELSE scrape.pc = "counter" /\ scrape'.counters[t] = counter[t]
           /\ \A t \in DOMAIN scrape'.histograms :
                IF t \in DOMAIN scrape.histograms
                THEN scrape'.histograms[t] = scrape.histograms[t]
                ELSE scrape.pc = "histogram" /\ scrape'.histograms[t] = histogram[t]
       ]_vars

\* one scrape sent counter value 1 and histogram count 2 for the same tuple:
\* a second call committed between the two reads
C11_Witness ==
  /\ scrape.pc = "done"
  /\ \E t \in DOMAIN scrape.counters :
       /\ scrape.counters[t] = 1
       /\ t \in DOMAIN scrape.histograms
       /\ scrape.histograms[t].count = 2

\* C12: the label set of a registry is grpc_service, grpc_method,
\* grpc_status followed by the extractor's LabelNames() in their order; a
\* registry built again from the same extractor has the same names in the
\* same order; and building it leaves the first registry's label set, and
\* the extractor's names, as they were.
C12_LabelSetConstruction ==
  /\ [](/\ Len(labels) = 3 + Len(extractor)
        /\ labels[1] = "grpc_service"
        /\ labels[2] = "grpc_method"
        /\ labels[3] = "grpc_status"
        /\ \A i \in 1..Len(extractor) : labels[3 + i] = extractor[i]
        /\ second # <<>> => second = labels)
  /\ [][labels' = labels /\ extractor' = extractor]_vars

\* a second registry was built for an extractor that declares userName and
\* region, while a call was between label resolution and its observation
C12_Witness ==
  /\ second = <<"grpc_service", "grpc_method", "grpc_status", "userName", "region">>
  /\ labels = second
  /\ pc[1] = "HANDLER_RUNNING"

\* C13: in the first version every call is recorded once in the counter and
\* once in the histogram, under the three values (service, method, custom
\* label); the custom label is the request's Name for a HelloRequest and
\* "unknown" for a request of any other type; a failed call is recorded like a
\* successful one, and the closure returns what the handler returned.
C13_FirstVersionRecordsOnce ==
  /\ \A c \in Calls :
       /\ ~Past(c, "HANDLER_DONE") => incs[c] = 0 /\ obss[c] = 0
       /\ incs[c] <= 1 /\ obss[c] <= incs[c]
       /\ pc[c] = "RETURNED" =>
            /\ incs[c] = 1 /\ obss[c] = 1
            /\ returned[c] = result[c]
       /\ Past(c, "COUNTER_GOT") =>
            /\ Len(orderedLabels[c]) = 3
            /\ orderedLabels[c][1] = GreetGreeter
            /\ orderedLabels[c][2] = SayHello
            /\ args[c].req.type = "HelloRequest" => orderedLabels[c][3] = args[c].req.name
            /\ args[c].req.type # "HelloRequest" =>
                 orderedLabels[c][3] = <<"u", "n", "k", "n", "o", "w", "n">>
  /\ \A t \in DOMAIN counter :
       counter[t] = Cardinality({c \in Calls : Past(c, "COUNTED") /\ orderedLabels[c] = t})
  /\ \A t \in DOMAIN histogram :
       histogram[t].count =
         Cardinality({c \in Calls : Past(c, "OBSERVED") /\ orderedLabels[c] = t})

\* a failed SayHello("Test111") and a request of another type have both
\* returned, recorded under "Test111" and under "unknown"
C13_Witness ==
  /\ \E c \in Calls :
       /\ pc[c] = "RETURNED"
       /\ args[c].req = HelloRequest(Test111)
       /\ returned[c] = <<"nil", StatusErr("Canceled")>>
  /\ \E c \in Calls : pc[c] = "RETURNED" /\ args[c].req.type = "Other"
  /\ <<GreetGreeter, SayHello, Test111>> \in DOMAIN histogram
  /\ histogram[<<GreetGreeter, SayHello, Test111>>].count = 1
  /\ <<GreetGreeter, SayHello, Unknown>> \in DOMAIN counter
  /\ counter[<<GreetGreeter, SayHello, Unknown>>] = 1

\* C14: for every call and every mapping the extractor returns, the values
\* resolved and recorded for grpc_service and grpc_method are the pair
\* splitMethodName derives from the call's method identifier; the extractor's
\* mapping cannot replace them.
C14_BaseLabelsFromMethod ==
  \A c \in Calls :
    /\ Past(c, "LABELS_RESOLVED") =>
         /\ metricLabels[c]["grpc_service"] = splitMethodName(args[c].fullMethod)[1]
         /\ metricLabels[c]["grpc_method"] = splitMethodName(args[c].fullMethod)[2]
    /\ Past(c, "COUNTER_GOT") =>
         /\ orderedLabels[c][IndexOf("grpc_service")] = splitMethodName(args[c].fullMethod)[1]
         /\ orderedLabels[c][IndexOf("grpc_method")] = splitMethodName(args[c].fullMethod)[2]

\* C15: the status code classified from the handler's outcome overrides the
\* value the status label held before the handler returned, be it the
\* "default" placeholder of label resolution or a grpc_status value of the
\* extractor's mapping: until the status is set the label holds that prior
\* value, from then on the outcome's code, and no tuple in the counter or the
\* histogram carries the placeholder or the extractor's value as its status.
C15_StatusOverridesPrior ==
  /\ \A c \in Calls :
       /\ (Past(c, "LABELS_RESOLVED") /\ ~Past(c, "STATUS_SET")) =>
            metricLabels[c]["grpc_status"] =
              IF "grpc_status" \in DOMAIN extracted[c]
              THEN extracted[c]["grpc_status"] ELSE Default
       /\ Past(c, "STATUS_SET") =>
            /\ monitor[c].labels["grpc_status"] = CodeString(FromErrorCode(result[c][2]))
            /\ monitor[c].labels["grpc_status"] # Default
            /\ "grpc_status" \in DOMAIN extracted[c] =>
                 monitor[c].labels["grpc_status"] # extracted[c]["grpc_status"]
            /\ \A n \in DOMAIN monitor[c].labels \ {"grpc_status"} :
                 monitor[c].labels[n] = MetricLabelsOf(labels, args[c].fullMethod, extracted[c])[n]
  /\ \A t \in DOMAIN counter \cup DOMAIN histogram :
       /\ t[IndexOf("grpc_status")] # Default
       /\ \A c \in Calls :
            "grpc_status" \in DOMAIN extracted[c] =>
               t[IndexOf("grpc_status")] # extracted[c]["grpc_status"]

\* the extractor supplied grpc_status = "jordi"; the handler failed with
\* NotFound and the call was counted and observed under "NotFound"
C15_Witness ==
  /\ pc[1] = "RETURNED"
  /\ extracted[1] = BaseLabels
  /\ result[1][2] = StatusErr("NotFound")
  /\ orderedLabels[1][3] = <<"N", "o", "t", "F", "o", "u", "n", "d">>
  /\ orderedLabels[1] \in DOMAIN histogram
  /\ histogram[orderedLabels[1]].count = 1

\* the tuple a call commits, from its own method identifier, its own
\* extractor result and its own handler outcome alone
OwnTuple(c) ==
  [i \in 1..Len(labels) |->
     IF labels[i] = "grpc_status" THEN CodeString(FromErrorCode(result[c][2]))
     ELSE MetricLabelsOf(labels, args[c].fullMethod, extracted[c])[labels[i]]]

\* C16: reporter state is per call: under every interleaving the tuple a
\* call commits is the one its own method identifier, extractor result and
\* handler outcome determine; the labels of a call whose status is not yet
\* written are as its own resolution left them; a step of one call (its
\* status write included) never changes the labels, the reporter or the tuple
\* of another call, also when the extractor gave every call the same
\* mapping; and each reporter is consumed by exactly one Handled.
C16_ReporterPerCall ==
  /\ [](\A c \in Calls :
          /\ (Past(c, "HANDLER_RUNNING") /\ ~Past(c, "STATUS_SET")) =>
               /\ monitor[c].labels = MetricLabelsOf(labels, args[c].fullMethod, extracted[c])
               /\ metricLabels[c] = monitor[c].labels
          /\ Past(c, "COUNTER_GOT") => orderedLabels[c] = OwnTuple(c)
          /\ incs[c] <= 1 /\ obss[c] <= 1
          /\ pc[c] = "RETURNED" => incs[c] = 1 /\ obss[c] = 1)
  /\ [][\A c, d \in Calls :
          (c # d /\ pc'[c] # pc[c]) =>
             /\ metricLabels'[d] = metricLabels[d]
             /\ monitor'[d] = monitor[d]
             /\ extracted'[d] = extracted[d]
             /\ orderedLabels'[d] = orderedLabels[d]
             /\ incs'[d] = incs[d] /\ obss'[d] = obss[d]]_vars

\* two calls that got the same mapping from the extractor were in flight
\* together; one succeeded, one was cancelled, each is recorded under its own
\* status
C16_Witness ==
  \E c, d \in Calls :
    /\ c # d
    /\ extracted[c] = extracted[d] /\ extracted[c] = CustomLabels
    /\ result[c][2] = NilErr /\ result[d][2] = StatusErr("Canceled")
    /\ pc[c] = "STATUS_SET" /\ pc[d] = "RETURNED"
    /\ monitor[c].labels["grpc_status"] = <<"O", "K">>
    /\ orderedLabels[d][IndexOf("grpc_status")] = <<"C", "a", "n", "c", "e", "l", "e", "d">>
    /\ counter[orderedLabels[d]] = 1

\* the five states of a call and the positions of the closure they cover:
\* HANDLER_DONE lasts from the handler's return to the last step of Handled
StateOrder ==
  <<"none", "ENTRY", "LABELS_RESOLVED", "HANDLER_RUNNING", "HANDLER_DONE", "OBSERVED">>
StateOf(p) ==
  IF p = "idle" THEN 1
  ELSE IF p \in {"ENTRY", "LABELS_RESOLVED", "HANDLER_RUNNING"} THEN Rank(p)
  ELSE IF p \in {"OBSERVED", "RETURNED"} THEN 6
  ELSE 5

\* C17: a call passes through ENTRY, LABELS_RESOLVED, HANDLER_RUNNING,
\* HANDLER_DONE, OBSERVED in this order, skipping and repeating none: every
\* step moves it to the next position; the extractor's result is taken in the
\* one step ENTRY -> LABELS_RESOLVED, before the handler is invoked; the
\* reporter (start time and resolved labels) is created in the step
\* LABELS_RESOLVED -> HANDLER_RUNNING that invokes the handler; the status is
\* written in the step after the handler's return and before anything is
\* committed.
C17_StatesInOrder ==
  /\ [](\A c \in Calls :
          /\ Len(handlerCalls[c]) = (IF Past(c, "HANDLER_RUNNING") THEN 1 ELSE 0)
          /\ (metricLabels[c] # <<>>) <=> Past(c, "LABELS_RESOLVED")
          /\ (monitor[c].labels # <<>>) <=> Past(c, "HANDLER_RUNNING")
          /\ ~Past(c, "COUNTED") => incs[c] = 0
          /\ ~Past(c, "OBSERVED") => obss[c] = 0)
  /\ [][\A c \in Calls :
          /\ pc'[c] # pc[c] =>
               /\ Rank(pc'[c]) = Rank(pc[c]) + 1
               /\ StateOf(pc'[c]) \in {StateOf(pc[c]), StateOf(pc[c]) + 1}
          /\ (extracted'[c] # extracted[c]
               \/ (metricLabels[c] = <<>> /\ metricLabels'[c] # <<>>)) =>
               pc[c] = "ENTRY" /\ pc'[c] = "LABELS_RESOLVED"
          /\ handlerCalls'[c] # handlerCalls[c] =>
               /\ pc[c] = "LABELS_RESOLVED" /\ pc'[c] = "HANDLER_RUNNING"
               /\ monitor'[c] = [labels |-> metricLabels[c], startTime |-> now]
          /\ monitor'[c] # monitor[c] =>
               \/ pc[c] = "LABELS_RESOLVED" /\ pc'[c] = "HANDLER_RUNNING"
               \/ /\ pc[c] = "HANDLER_DONE" /\ pc'[c] = "STATUS_SET"
                  /\ monitor'[c].startTime = monitor[c].startTime
          /\ (incs'[c] # incs[c] \/ obss'[c] # obss[c]) => Past(c, "STATUS_SET")]_vars

\* a call has reached OBSERVED: its labels were resolved from the extractor's
\* region mapping, its reporter was created at time 1, its handler ran once
\* and failed, its status was written and its observation committed
C17_Witness ==
  /\ pc[1] = "OBSERVED"
  /\ StateOrder[StateOf(pc[1])] = "OBSERVED"
  /\ extracted[1] = RegionLabels
  /\ monitor[1].startTime = 1
  /\ Len(handlerCalls[1]) = 1
  /\ monitor[1].labels["grpc_status"] = <<"N", "o", "t", "F", "o", "u", "n", "d">>
  /\ obss[1] = 1

\* C18: under fair scheduling every call whose handler has returned reaches
\* OBSERVED with its observation committed and returns to the framework,
\* whatever the other calls and a scrape do; from the handler's return to the
\* closure's return the call always has a step it can take (committing never
\* blocks); while the handler has not returned the closure has no step of its
\* own (no timeout) and the call has committed nothing.
C18_ObservationTerminates ==
  /\ \A c \in Calls : (pc[c] = "HANDLER_DONE") ~> (pc[c] = "RETURNED" /\ obss[c] = 1)
  /\ [](\A c \in Calls : Past(c, "OBSERVED") <=> obss[c] = 1)
  /\ [](\A c \in Calls :
          /\ (Past(c, "HANDLER_DONE") /\ pc[c] # "RETURNED") => ENABLED InterceptorStep(c)
          /\ pc[c] = "HANDLER_RUNNING" =>
               /\ ~ENABLED InterceptorStep(c)
               /\ incs[c] = 0 /\ obss[c] = 0)

\* a call waits to increment the counter while another call is between its
\* own increment and observation and a scrape is reading the counter
C18_Witness ==
  \E c, d \in Calls :
    /\ c # d
    /\ pc[c] = "COUNTER_GOT"
    /\ pc[d] = "COUNTED"
    /\ scrape.pc = "counter"

\* the histogram count of a tuple, 0 while the histogram has no such series
HistogramCount(t) == IF t \in DOMAIN histogram THEN histogram[t].count ELSE 0

\* the calls with tuple t between the counter increment and the histogram
\* observation of Handled
BetweenIncAndObserve(t) ==
  {c \in Calls : pc[c] \in {"COUNTED", "HISTOGRAM_GOT"} /\ orderedLabels[c] = t}

\* C19: in every reachable state and for every tuple, the histogram count is
\* at most the counter value, the difference is at most (here: exactly) the
\* number of calls between the increment and the observation for that tuple,
\* and the two are equal when there is no such call; the histogram has no
\* series the counter lacks.
C19_HistogramTrailsCounter ==
  /\ \A t \in DOMAIN histogram : t \in DOMAIN counter
  /\ \A t \in DOMAIN counter :
       /\ HistogramCount(t) <= counter[t]
       /\ counter[t] - HistogramCount(t) <= Cardinality(BetweenIncAndObserve(t))
       /\ counter[t] - HistogramCount(t) = Cardinality(BetweenIncAndObserve(t))
       /\ BetweenIncAndObserve(t) = {} => HistogramCount(t) = counter[t]

\* one call of a tuple has returned and another has incremented the counter
\* but not yet observed: counter 2, histogram count 1
C19_Witness ==
  \E t \in DOMAIN counter :
    /\ counter[t] = 2
    /\ HistogramCount(t) = 1
    /\ Cardinality(BetweenIncAndObserve(t)) = 1
    /\ \E c \in Calls : pc[c] = "RETURNED" /\ orderedLabels[c] = t

\* C20: the elapsed value a call adds to the histogram is the time from the
\* creation of its reporter to the commit in Handled.  The start time is
\* taken after label resolution and before the handler is invoked, the commit
\* comes after the handler's return; so on the non-decreasing clock the
\* elapsed value is not negative, is at least the handler's duration, and
\* holds nothing of the time between the call's entry and the end of its
\* label resolution.
C20_ElapsedFromReporterCreation ==
  /\ [](\A c \in Calls :
          /\ Past(c, "LABELS_RESOLVED") => stamps[c].entry <= stamps[c].resolved
          /\ Past(c, "HANDLER_RUNNING") =>
               /\ stamps[c].resolved <= monitor[c].startTime
               /\ monitor[c].startTime <= now
          /\ Past(c, "HANDLER_DONE") =>
               /\ monitor[c].startTime <= stamps[c].done
               /\ stamps[c].done <= now)
  /\ [][now' >= now]_vars
  /\ [][\A c \in Calls :
          obss'[c] # obss[c] =>
            LET t == orderedLabels[c]
                elapsed == histogram'[t].sum - histogram[t].sum
            IN  /\ pc[c] = "HISTOGRAM_GOT"
                /\ histogram'[t].count = histogram[t].count + 1
                /\ elapsed = now - monitor[c].startTime
                /\ elapsed >= 0
                /\ elapsed >= stamps[c].done - monitor[c].startTime
                /\ elapsed <= now - stamps[c].resolved]_vars

\* a call entered at time 0, had its labels resolved and its reporter created
\* at time 1 and its handler returned at time 2: it added 1 to the histogram,
\* not the 2 that passed since its entry
C20_Witness ==
  /\ pc[1] = "RETURNED"
  /\ stamps[1] = [entry |-> 0, resolved |-> 1, done |-> 2]
  /\ monitor[1].startTime = 1
  /\ now = 2
  /\ histogram[orderedLabels[1]] = [count |-> 1, sum |-> 1]

====
